---- MODULE Spec2Model ----
(***************************************************************************)
(* Authentication and session guarding of the Kiosk admin application      *)
(* (src/api/main.py, src/api/first_user.py).                               *)
(*                                                                         *)
(* The clock `now` counts whole seconds since the epoch: it is the value   *)
(* timegm(datetime.utcnow().utctimetuple()) that the JWT library reads     *)
(* when it writes and when it validates the "exp" claim.                   *)
(*                                                                         *)
(* HS256 is modelled symbolically: a signature is the record of the key    *)
(* and the payload it was computed over, plus the position of a byte that  *)
(* has been altered afterwards (0 = none).  Two signatures are equal iff   *)
(* key, payload and alteration are equal (no collisions).                  *)
(*                                                                         *)
(* A token is a record: kind, sig, and one field per claim of its payload. *)
(* A claim that is absent from the payload is absent from the record.  A   *)
(* claim whose JSON value has the wrong type is recorded by the type it    *)
(* has: exp_json ("null", "text") in place of exp, sub_json ("null",       *)
(* "number") in place of sub.  body ("not_json", "not_object") marks a     *)
(* payload segment that is no JSON object.                                 *)
(***************************************************************************)
EXTENDS Integers, FiniteSets, Sequences, TLC

VARIABLES
    now,            \* the server's clock, whole seconds
    db,             \* table users: username -> User row
    cookie,         \* per client: the content of its access_token cookie
    resp            \* the last request and the response it received

vars == <<now, db, cookie, resp>>

-----------------------------------------------------------------------------
(* Program constants *)

SECRET_KEY == "your-secret-key"
ALGORITHM == "HS256"
ACCESS_TOKEN_EXPIRE_MINUTES == 30
DefaultExpireMinutes == 15

(* Bounds of the model *)

MaxOver == 2        \* seconds past the first token's expiry the clock is followed

Clients == {"c1", "c2"}
Usernames == {"admin", "bob"}
ProvisionedPassword == "password"
Passwords == {ProvisionedPassword, "letmein"}
OtherKey == "attacker-key"

timedelta(minutes) == minutes * 60

TTL == timedelta(ACCESS_TOKEN_EXPIRE_MINUTES)

\* the instants at which the clock is observed: the start, and the seconds
\* around the expiry of a token issued at the start
Instants == {0} \cup (TTL - 1)..(TTL + MaxOver)

\* an HS256 signature has 32 bytes; the first and the last stand for all
SigBytes == 32
FlipPositions == {1, SigBytes}

\* the salts bcrypt.gensalt() may draw
Salts == {"salt-a", "salt-b"}

\* the clients that build cookie values themselves
Intruders == {"c2"}

-----------------------------------------------------------------------------
(* Values *)

None == [kind |-> "None"]
JWTError == [kind |-> "JWTError"]
\* an exception that is no JWTError, raised inside jwt.decode
TypeError == [kind |-> "TypeError"]
NoResponse == [op |-> "none"]

\* bcrypt.hashpw(password, salt): salted one-way hash
hashpw(password, salt) == [salt |-> salt, digest |-> <<salt, password>>]

\* bcrypt.checkpw: re-hash with the salt embedded in the stored hash
checkpw(password, hashed) == hashpw(password, hashed.salt) = hashed

verify_password(plain_password, hashed_password) ==
    checkpw(plain_password, hashed_password)

User(username, hashed_password) ==
    [kind |-> "User", username |-> username, hashed_password |-> hashed_password]

\* HMAC-SHA256 of the payload under key
HS256(key, payload) == [key |-> key, payload |-> payload, flip |-> 0]

\* jose.jwt.encode: header.payload.signature
jwt_encode(claims, key) ==
    [kind |-> "jwt", sig |-> HS256(key, claims)] @@ claims

\* the payload segment of a token
Payload(token) == [f \in DOMAIN token \ {"kind", "sig"} |-> token[f]]

\* mutant: the requested lifetime is ignored, the default is used
create_access_token_default(data, expires_delta, t) ==
    jwt_encode([sub |-> data.sub, exp |-> t + timedelta(DefaultExpireMinutes)],
               SECRET_KEY)

\* expires_delta = 0 stands for None (and for the falsy timedelta(0))
create_access_token(data, expires_delta, t) ==
    LET expire == IF expires_delta # 0
                  THEN t + expires_delta
                  ELSE t + timedelta(DefaultExpireMinutes)
    IN  jwt_encode([sub |-> data.sub, exp |-> expire], SECRET_KEY)

\* mutant: decoding with the expiry check switched off
jwt_decode_noexp(token, key, t) ==
    IF token.kind # "jwt" THEN JWTError
    ELSE IF token.sig # HS256(key, Payload(token)) THEN JWTError
    ELSE [kind |-> "payload"] @@ Payload(token)

\* mutant: decoding with the signature check switched off
jwt_decode_nosig(token, key, t) ==
    IF token.kind # "jwt" THEN JWTError
    ELSE IF token.exp < t THEN JWTError
    ELSE [kind |-> "payload"] @@ Payload(token)

\* jose.jwt.decode(token, key, algorithms=[ALGORITHM]) at clock value t.
\* The compact form is split and the signature verified first; the payload
\* must then parse as a JSON object; then the registered claims are
\* validated, "exp" before "sub".  "exp" is validated only if present:
\* int(exp) raises TypeError for null (not caught by the library) and
\* ValueError for text (turned into JWTClaimsError); the token is expired
\* when exp < now.  "sub" is validated only if present: it must be a string.
jwt_decode(token, key, t) ==
    IF token.kind # "jwt" THEN JWTError
    ELSE IF token.sig # HS256(key, Payload(token)) THEN JWTError
    ELSE IF "body" \in DOMAIN token THEN JWTError
    ELSE IF "exp_json" \in DOMAIN token /\ token.exp_json = "null" THEN TypeError
    ELSE IF "exp_json" \in DOMAIN token THEN JWTError
    ELSE IF "exp" \in DOMAIN token /\ token.exp < t THEN JWTError
    ELSE IF "sub_json" \in DOMAIN token THEN JWTError
    ELSE [kind |-> "payload"] @@ Payload(token)

\* mutant: the guard refuses a token that a logout has just cleared
get_current_user_revoking(token, users, t) ==
    IF token = None THEN None
    ELSE IF resp.op = "logout" /\ resp.sent = token THEN None
    ELSE LET payload == jwt_decode(token, SECRET_KEY, t)
         IN  IF payload = JWTError THEN None
             ELSE IF payload.sub \notin DOMAIN users THEN None
             ELSE users[payload.sub]

\* mutant: the guard trusts the token's subject without looking it up
get_current_user_nolookup(token, users, t) ==
    IF token = None THEN None
    ELSE LET payload == jwt_decode(token, SECRET_KEY, t)
         IN  IF payload = JWTError THEN None
             ELSE IF payload.sub \in DOMAIN users THEN users[payload.sub]
             ELSE User(payload.sub, hashpw("", "salt-a"))

\* mutant: one session per user, a later login for the same subject
\* invalidates the tokens issued before it
get_current_user_single_session(token, users, t) ==
    IF token = None THEN None
    ELSE IF /\ token.kind = "jwt"
            /\ resp.op = "login"
            /\ resp.set_cookie.action = "set"
            /\ resp.set_cookie.value # token
            /\ resp.set_cookie.value.sub = token.sub
         THEN None
    ELSE LET payload == jwt_decode(token, SECRET_KEY, t)
         IN  IF payload = JWTError THEN None
             ELSE IF payload.sub \notin DOMAIN users THEN None
             ELSE users[payload.sub]

\* the Auth Guard: the row of the token's subject, or None.  Only JWTError
\* is caught: any other exception of jwt.decode leaves the function (the
\* result TypeError stands for that).
get_current_user(token, users, t) ==
    IF token = None THEN None
    ELSE LET payload == jwt_decode(token, SECRET_KEY, t)
         IN  IF payload = JWTError THEN None
             ELSE IF payload = TypeError THEN TypeError
             ELSE IF "sub" \notin DOMAIN payload THEN None
             ELSE IF payload.sub \notin DOMAIN users THEN None
             ELSE users[payload.sub]

-----------------------------------------------------------------------------
(* Responses *)

NoSetCookie == [action |-> "none"]
DeleteCookie(key) == [action |-> "delete", key |-> key]
SetCookie(key, value, httponly, max_age) ==
    [action |-> "set", key |-> key, value |-> value,
     httponly |-> httponly, max_age |-> max_age]

HTMLResponse(status_code, hx_redirect, set_cookie) ==
    [kind |-> "html", status |-> status_code, location |-> "",
     hx_redirect |-> hx_redirect, template |-> "", user |-> None,
     set_cookie |-> set_cookie]

RedirectResponse(url, status_code) ==
    [kind |-> "redirect", status |-> status_code, location |-> url,
     hx_redirect |-> "", template |-> "", user |-> None,
     set_cookie |-> NoSetCookie]

TemplateResponse(name, user) ==
    [kind |-> "template", status |-> 200, location |-> "",
     hx_redirect |-> "", template |-> name, user |-> user,
     set_cookie |-> NoSetCookie]

\* what the framework answers when a dependency or a handler raises
InternalServerError ==
    [kind |-> "error", status |-> 500, location |-> "",
     hx_redirect |-> "", template |-> "", user |-> None,
     set_cookie |-> NoSetCookie]

-----------------------------------------------------------------------------
(* Route handlers: the response each one builds *)

\* mutant: the login page is rendered whoever asks
login_page_always(current_user) ==
    TemplateResponse("login.html", None)

\* GET /admin/login
login_page(current_user) ==
    IF current_user # None
    THEN RedirectResponse("/admin", 302)
    ELSE TemplateResponse("login.html", None)

\* mutant: an unknown username gets an answer of its own
login_enumerating(username, password, users, t) ==
    LET user == IF username \in DOMAIN users THEN users[username] ELSE None
    IN  IF user = None
        THEN TemplateResponse("/components/toast-unknown-user.html", None)
        ELSE IF ~verify_password(password, user.hashed_password)
        THEN TemplateResponse("/components/toast-warning.html", None)
        ELSE LET access_token_expires == timedelta(ACCESS_TOKEN_EXPIRE_MINUTES)
                 access_token == create_access_token([sub |-> user.username],
                                                     access_token_expires, t)
             IN  HTMLResponse(200, "/admin",
                     SetCookie("access_token", access_token, TRUE,
                               access_token_expires))

\* mutant: the user row is fetched without the username filter
login_unfiltered(username, password, users, t) ==
    LET user == IF DOMAIN users # {}
                THEN users[CHOOSE u \in DOMAIN users : TRUE]
                ELSE None
    IN  IF user = None \/ ~verify_password(password, user.hashed_password)
        THEN TemplateResponse("/components/toast-warning.html", None)
        ELSE LET access_token_expires == timedelta(ACCESS_TOKEN_EXPIRE_MINUTES)
                 access_token == create_access_token([sub |-> user.username],
                                                     access_token_expires, t)
             IN  HTMLResponse(200, "/admin",
                     SetCookie("access_token", access_token, TRUE,
                               access_token_expires))

\* mutant: a failed login clears the session
login_clearing(username, password, users, t) ==
    LET user == IF username \in DOMAIN users THEN users[username] ELSE None
    IN  IF user = None \/ ~verify_password(password, user.hashed_password)
        THEN [TemplateResponse("/components/toast-warning.html", None) EXCEPT
                 !.set_cookie = DeleteCookie("access_token")]
        ELSE LET access_token_expires == timedelta(ACCESS_TOKEN_EXPIRE_MINUTES)
                 access_token == create_access_token([sub |-> user.username],
                                                     access_token_expires, t)
             IN  HTMLResponse(200, "/admin",
                     SetCookie("access_token", access_token, TRUE,
                               access_token_expires))

\* POST /admin/login
login(username, password, users, t) ==
    LET user == IF username \in DOMAIN users THEN users[username] ELSE None
    IN  IF user = None \/ ~verify_password(password, user.hashed_password)
        THEN TemplateResponse("/components/toast-warning.html", None)
        ELSE LET access_token_expires == timedelta(ACCESS_TOKEN_EXPIRE_MINUTES)
                 access_token == create_access_token([sub |-> user.username],
                                                     access_token_expires, t)
             IN  HTMLResponse(200, "/admin",
                     SetCookie("access_token", access_token, TRUE,
                               access_token_expires))

\* mutant: logout answers without deleting the cookie
logout_keep ==
    HTMLResponse(200, "/", NoSetCookie)

\* POST /admin/logout
logout ==
    HTMLResponse(200, "/", DeleteCookie("access_token"))

\* mutant: an authenticated page view renews the session cookie
admin_dashboard_refresh(current_user) ==
    IF current_user = None
    THEN RedirectResponse("/admin/login", 302)
    ELSE [TemplateResponse("dashboard.html", current_user) EXCEPT
             !.set_cookie =
                 SetCookie("access_token",
                           create_access_token([sub |-> current_user.username],
                               timedelta(ACCESS_TOKEN_EXPIRE_MINUTES), now),
                           TRUE, timedelta(ACCESS_TOKEN_EXPIRE_MINUTES))]

\* GET /admin
admin_dashboard(current_user) ==
    IF current_user = None
    THEN RedirectResponse("/admin/login", 302)
    ELSE TemplateResponse("dashboard.html", current_user)

\* mutant: the second route renders without checking current_user
admin_dashboard_config_open(current_user) ==
    TemplateResponse("dashboard.html", current_user)

\* GET /admin/config (the second function named admin_dashboard)
admin_dashboard_config(current_user) ==
    IF current_user = None
    THEN RedirectResponse("/admin/login", 302)
    ELSE TemplateResponse("dashboard.html", current_user)

-----------------------------------------------------------------------------
(* The client side of the transport *)

Garbage == [kind |-> "garbage"]

\* what the client's cookie jar holds after a response
ApplySetCookie(jar, set_cookie) ==
    IF set_cookie.action = "set" THEN set_cookie.value
    ELSE IF set_cookie.action = "delete" THEN None
    ELSE jar

\* a token whose signature is the server's over the payload it carries
Genuine(token) ==
    /\ token.kind = "jwt"
    /\ token.sig = HS256(SECRET_KEY, Payload(token))

\* the cookie values a client can put in a request without the server's key:
\* a copy of any token in circulation, garbage, a genuine token with a byte
\* of its signature or a field of its payload altered, and tokens signed
\* with a key of its own
Forgeable(jars) ==
    LET held == {jars[c] : c \in Clients}
        real == {x \in held : Genuine(x)}
    IN  held \cup {Garbage}
        \cup {[x EXCEPT !.sig.flip = f] : x \in real, f \in FlipPositions}
        \cup {[x EXCEPT !.sub = u] : x \in real, u \in Usernames}
        \cup {[x EXCEPT !.exp = x.exp + TTL] : x \in real}
        \cup {jwt_encode([sub |-> x.sub, exp |-> x.exp], OtherKey) : x \in real}

\* a request together with the response it received.  current_user is what
\* the Auth Guard resolved for the request (None where the route does not
\* use it).  after_logout records that the step before was a logout: "own"
\* if this client sent it, "other" if another client sent it with the token
\* this request carries; prior_session records whether that logout request
\* carried a session the guard would have resolved.
Exchange(op, client, sent, username, password, t, current_user, response) ==
    [op |-> op, client |-> client, sent |-> sent, username |-> username,
     password |-> password, at |-> t, current_user |-> current_user,
     after_logout |-> IF resp.op # "logout" THEN "no"
                      ELSE IF resp.client = client THEN "own"
                      ELSE IF resp.sent = sent THEN "other"
                      ELSE "no",
     prior_session |-> IF resp.op # "logout" THEN "n/a"
                       ELSE IF get_current_user(resp.sent, db, resp.at) # None
                       THEN "valid"
                       ELSE "invalid",
     kind |-> response.kind, status |-> response.status,
     location |-> response.location, hx_redirect |-> response.hx_redirect,
     template |-> response.template, user |-> response.user,
     set_cookie |-> response.set_cookie]

-----------------------------------------------------------------------------
(* State machine *)

Init ==
    /\ now = 0
    /\ db = <<>>
    /\ cookie = [c \in Clients |-> None]
    /\ resp = NoResponse

\* time passes
Tick(t) ==
    /\ t > now
    /\ now' = t
    /\ resp' = NoResponse
    /\ UNCHANGED <<db, cookie>>

\* first_user.py: insert a user row (username is UNIQUE)
Provision(username, password, salt) ==
    /\ username \notin DOMAIN db
    /\ db' = [u \in DOMAIN db \cup {username} |->
                 IF u = username
                 THEN User(username, hashpw(password, salt))
                 ELSE db[u]]
    /\ resp' = NoResponse
    /\ UNCHANGED <<now, cookie>>

\* external administration removes a user row
DeleteUser(username) ==
    /\ username \in DOMAIN db
    /\ db' = [u \in DOMAIN db \ {username} |-> db[u]]
    /\ resp' = NoResponse
    /\ UNCHANGED <<now, cookie>>

\* the client replaces the content of its cookie
ClientSetsCookie(c, token) ==
    /\ token \in Forgeable(cookie)
    /\ token # cookie[c]
    /\ cookie' = [cookie EXCEPT ![c] = token]
    /\ resp' = NoResponse
    /\ UNCHANGED <<now, db>>

\* mutant: a login for an unknown username creates the user
PostLogin_autocreate(c, username, password) ==
    LET users == IF username \in DOMAIN db THEN db
                 ELSE [u \in DOMAIN db \cup {username} |->
                          IF u = username
                          THEN User(username, hashpw(password, "salt-a"))
                          ELSE db[u]]
        r == login(username, password, users, now)
    IN  /\ resp' = Exchange("login", c, cookie[c], username, password, now, None, r)
        /\ cookie' = [cookie EXCEPT ![c] = ApplySetCookie(@, r.set_cookie)]
        /\ db' = users
        /\ UNCHANGED now

PostLogin(c, username, password) ==
    LET r == login(username, password, db, now)
    IN  /\ resp' = Exchange("login", c, cookie[c], username, password, now, None, r)
        /\ cookie' = [cookie EXCEPT ![c] = ApplySetCookie(@, r.set_cookie)]
        /\ UNCHANGED <<now, db>>

PostLogout(c) ==
    LET r == logout
    IN  /\ resp' = Exchange("logout", c, cookie[c], "", "", now, None, r)
        /\ cookie' = [cookie EXCEPT ![c] = ApplySetCookie(@, r.set_cookie)]
        /\ UNCHANGED <<now, db>>

GetLoginPage(c) ==
    LET current_user == get_current_user(cookie[c], db, now)
        r == IF current_user = TypeError
             THEN InternalServerError
             ELSE login_page(current_user)
    IN  /\ resp' = Exchange("login_page", c, cookie[c], "", "", now, current_user, r)
        /\ cookie' = [cookie EXCEPT ![c] = ApplySetCookie(@, r.set_cookie)]
        /\ UNCHANGED <<now, db>>

GetAdmin(c) ==
    LET current_user == get_current_user(cookie[c], db, now)
        r == IF current_user = TypeError
             THEN InternalServerError
             ELSE admin_dashboard(current_user)
    IN  /\ resp' = Exchange("admin", c, cookie[c], "", "", now, current_user, r)
        /\ cookie' = [cookie EXCEPT ![c] = ApplySetCookie(@, r.set_cookie)]
        /\ UNCHANGED <<now, db>>

GetAdminConfig(c) ==
    LET current_user == get_current_user(cookie[c], db, now)
        r == IF current_user = TypeError
             THEN InternalServerError
             ELSE admin_dashboard_config(current_user)
    IN  /\ resp' = Exchange("admin_config", c, cookie[c], "", "", now, current_user, r)
        /\ cookie' = [cookie EXCEPT ![c] = ApplySetCookie(@, r.set_cookie)]
        /\ UNCHANGED <<now, db>>

Next ==
    \/ \E t \in Instants : Tick(t)
    \/ \E u \in Usernames, s \in Salts : Provision(u, ProvisionedPassword, s)
    \/ \E u \in Usernames : DeleteUser(u)
    \/ \E c \in Intruders : \E token \in Forgeable(cookie) : ClientSetsCookie(c, token)
    \/ \E c \in Clients, u \in Usernames, p \in Passwords : PostLogin(c, u, p)
    \/ \E c \in Clients : PostLogout(c)
    \/ \E c \in Clients : GetLoginPage(c)
    \/ \E c \in Clients : GetAdmin(c)
    \/ \E c \in Clients : GetAdminConfig(c)

Spec == Init /\ [][Next]_vars

-----------------------------------------------------------------------------
(* The Auth Guard as a function of the cookie: every shape of cookie value,
   also those only a holder of the signing key can build, is presented to
   the routes that depend on get_current_user *)

\* the expiry the presented tokens carry; the clock is set around it
GuardExp == TTL
GuardInstants == {GuardExp - 1, GuardExp, GuardExp + 1}

PayloadInputs ==
    LET subs == {[sub |-> u] : u \in Usernames}
                \cup {<<>>, [sub_json |-> "null"], [sub_json |-> "number"]}
        exps == {[exp |-> GuardExp], <<>>,
                 [exp_json |-> "null"], [exp_json |-> "text"]}
    IN  {a @@ b : a \in subs, b \in exps}
        \cup {[body |-> "not_json"], [body |-> "not_object"]}

TokenInputs ==
    {None, Garbage}
    \cup {jwt_encode(claims, key) : claims \in PayloadInputs,
                                    key \in {SECRET_KEY, OtherKey}}
    \cup {[jwt_encode(claims, SECRET_KEY) EXCEPT !.sig.flip = f] :
              claims \in PayloadInputs, f \in FlipPositions}

\* the users tables the guard is run against
TableInputs ==
    {[u \in us |-> User(u, hashpw(ProvisionedPassword, "salt-a"))] :
        us \in SUBSET Usernames}

GuardInit ==
    /\ now \in GuardInstants
    /\ db \in TableInputs
    /\ \E token \in TokenInputs :
           cookie = [c \in Clients |-> IF c \in Intruders THEN token ELSE None]
    /\ resp = NoResponse

GuardNext ==
    \/ \E c \in Clients : GetLoginPage(c)
    \/ \E c \in Clients : GetAdmin(c)
    \/ \E c \in Clients : GetAdminConfig(c)

GuardSpec == GuardInit /\ [][GuardNext]_vars

-----------------------------------------------------------------------------
(* Properties *)

GuardOps == {"login_page", "admin", "admin_config"}
Protected == {"admin", "admin_config"}

RedirectedToLogin(r) ==
    r.kind = "redirect" /\ r.status = 302 /\ r.location = "/admin/login"

\* the submitted pair matches a stored user record
Matches(username, password, users) ==
    /\ username \in DOMAIN users
    /\ \E salt \in Salts : users[username].hashed_password = hashpw(password, salt)

\* C1: a login submission whose (username, password) pair matches a stored
\* record answers with the access_token cookie set (HTTP-only) to a token
\* that decodes, under the server's key, to the submitted username as
\* subject and to an expiry of the login time plus 30 minutes; the client
\* then holds that token.
C1_LoginIssuesToken ==
    (resp.op = "login" /\ Matches(resp.username, resp.password, db)) =>
        /\ resp.set_cookie.action = "set"
        /\ resp.set_cookie.key = "access_token"
        /\ resp.set_cookie.httponly
        /\ LET claim == jwt_decode(resp.set_cookie.value, SECRET_KEY, resp.at)
           IN  /\ claim # JWTError
               /\ claim.sub = resp.username
               /\ claim.exp = resp.at + 30 * 60
        /\ cookie[resp.client] = resp.set_cookie.value

C1_Witness ==
    /\ resp.op = "login"
    /\ Matches(resp.username, resp.password, db)
    /\ resp.at > 0
    /\ resp.set_cookie.action = "set"

\* C2: a login submission with an unknown username and one with a wrong
\* password receive the same response, the generic warning, which sets no
\* cookie; the client's cookie is left as it was.
C2_GenericFailure ==
    (resp.op = "login" /\ ~Matches(resp.username, resp.password, db)) =>
        /\ resp.kind = "template"
        /\ resp.status = 200
        /\ resp.template = "/components/toast-warning.html"
        /\ resp.location = ""
        /\ resp.hx_redirect = ""
        /\ resp.user = None
        /\ resp.set_cookie.action = "none"
        /\ cookie[resp.client] = resp.sent

C2_Witness ==
    /\ resp.op = "login"
    /\ resp.username \notin DOMAIN db
    /\ db # <<>>
    /\ resp.template = "/components/toast-warning.html"
    /\ resp.set_cookie.action = "none"

\* C3: a token issued by login (signed by the server) decodes to Invalid at
\* expiresAt + 1s and at every later instant, so the guard resolves
\* Anonymous; at expiresAt - 1s it decodes to its original claim, and the
\* guard resolves the row of its subject while that user is stored.
C3_ExpiryBoundary ==
    (resp.op \in GuardOps /\ Genuine(resp.sent)) =>
        LET token == resp.sent
            e == token.exp
        IN  /\ \A t \in {e + 1} \cup {i \in Instants : i > e} :
                   /\ jwt_decode(token, SECRET_KEY, t) = JWTError
                   /\ get_current_user(token, db, t) = None
            /\ jwt_decode(token, SECRET_KEY, e - 1)
                   = [kind |-> "payload", sub |-> token.sub, exp |-> e]
            /\ token.sub \in DOMAIN db =>
                   get_current_user(token, db, e - 1) = db[token.sub]
            /\ resp.at >= e + 1 => resp.current_user = None
            /\ (resp.at = e - 1 /\ token.sub \in DOMAIN db) =>
                   resp.current_user = db[token.sub]

C3_Witness ==
    /\ resp.op \in Protected
    /\ Genuine(resp.sent)
    /\ resp.sent.sub \in DOMAIN db
    /\ resp.at = resp.sent.exp + 1
    /\ resp.current_user = None
    /\ RedirectedToLogin(resp)

\* C4: a request whose token carries expiresAt <= now resolves to
\* Anonymous, also at the instant now = expiresAt.
C4_RejectAtExpiry ==
    (resp.op \in GuardOps /\ Genuine(resp.sent) /\ resp.sent.exp <= resp.at) =>
        resp.current_user = None

\* C5: a request with no access_token cookie resolves to Anonymous, and so
\* does a request whose cookie is a well-formed token whose signature is not
\* the server's over its payload (another key, or a byte of it altered).
C5_UnsignedIsAnonymous ==
    (/\ resp.op \in GuardOps
     /\ \/ resp.sent = None
        \/ resp.sent.kind = "jwt" /\ ~Genuine(resp.sent)) =>
        /\ resp.current_user = None
        /\ resp.op \in Protected => RedirectedToLogin(resp)

C5_Witness ==
    /\ resp.op \in Protected
    /\ resp.sent.kind = "jwt"
    /\ resp.sent.sig.flip # 0
    /\ resp.sent.sig.key = SECRET_KEY
    /\ resp.sent.sig.payload = Payload(resp.sent)
    /\ resp.sent.sub \in DOMAIN db
    /\ resp.at < resp.sent.exp
    /\ RedirectedToLogin(resp)

\* C6: a logout request succeeds whatever cookie it carries (none, a valid,
\* an expired or an invalid token) and deletes the access_token cookie; the
\* request the same client sends next to /admin or /admin/config is
\* redirected to the login page.
C6_LogoutThenRedirect ==
    /\ resp.op = "logout" =>
           /\ resp.status = 200
           /\ resp.kind = "html"
           /\ resp.set_cookie = DeleteCookie("access_token")
           /\ cookie[resp.client] = None
    /\ (resp.op \in Protected /\ resp.after_logout = "own") =>
           /\ resp.sent = None
           /\ RedirectedToLogin(resp)

C6_Witness ==
    /\ resp.op \in Protected
    /\ resp.after_logout = "own"
    /\ resp.prior_session = "valid"
    /\ RedirectedToLogin(resp)

C6_WitnessInvalid ==
    /\ resp.op \in Protected
    /\ resp.after_logout = "own"
    /\ resp.prior_session = "invalid"
    /\ RedirectedToLogin(resp)

\* C7: a token signed by the server, presented before its expiry while its
\* subject is stored, resolves to that user's row and the protected page is
\* rendered for it, also when the request follows a logout of another
\* client that carried the same token.
C7_NoRevocation ==
    (/\ resp.op \in Protected
     /\ Genuine(resp.sent)
     /\ resp.at < resp.sent.exp
     /\ resp.sent.sub \in DOMAIN db) =>
        /\ resp.current_user = db[resp.sent.sub]
        /\ resp.kind = "template"
        /\ resp.user.username = resp.sent.sub

C7_Witness ==
    /\ resp.op \in Protected
    /\ resp.after_logout = "other"
    /\ Genuine(resp.sent)
    /\ resp.at < resp.sent.exp
    /\ cookie[CHOOSE c \in Clients : c # resp.client] = None
    /\ resp.kind = "template"
    /\ resp.user.username = resp.sent.sub

\* C8: a GET of /admin or /admin/config whose request resolves to Anonymous
\* is answered with the 302 redirect to /admin/login and renders no page;
\* one that resolves to an Identity renders the page with that Identity.
C8_ProtectedPages ==
    resp.op \in Protected =>
        /\ resp.current_user = get_current_user(resp.sent, db, resp.at)
        /\ resp.current_user = None =>
               /\ RedirectedToLogin(resp)
               /\ resp.status # 200
               /\ resp.template = ""
        /\ resp.current_user # None =>
               /\ resp.kind = "template"
               /\ resp.status = 200
               /\ resp.template = "dashboard.html"
               /\ resp.user = resp.current_user

C8_Witness ==
    /\ resp.op = "admin_config"
    /\ resp.sent # None
    /\ resp.current_user = None
    /\ RedirectedToLogin(resp)

C8_WitnessIdentity ==
    /\ resp.op = "admin_config"
    /\ resp.current_user # None
    /\ resp.user = resp.current_user

\* C9: only a login submission with matching credentials answers with a
\* token: every other request sets no cookie value, and leaves the client's
\* cookie as it was unless it is a logout.  So a protected-page request that
\* carries a token issued by login after that token's expiry (login time
\* plus ttl) is redirected to the login page.
C9_NeverRefreshed ==
    /\ (resp.op # "none" /\ resp.set_cookie.action = "set") =>
           /\ resp.op = "login"
           /\ Matches(resp.username, resp.password, db)
    /\ resp.op \in GuardOps =>
           /\ resp.set_cookie.action = "none"
           /\ cookie[resp.client] = resp.sent
    /\ (resp.op \in Protected /\ Genuine(resp.sent) /\ resp.at > resp.sent.exp) =>
           RedirectedToLogin(resp)

C9_Witness ==
    /\ resp.op \in Protected
    /\ resp.client \notin Intruders
    /\ Genuine(resp.sent)
    /\ resp.sent.sub \in DOMAIN db
    /\ resp.at > resp.sent.exp
    /\ cookie[resp.client] = resp.sent
    /\ RedirectedToLogin(resp)

\* C10: a request carrying a correctly signed, unexpired token whose subject
\* is no longer in the users table resolves to Anonymous.
C10_DeletedUserIsAnonymous ==
    (/\ resp.op \in GuardOps
     /\ Genuine(resp.sent)
     /\ resp.at < resp.sent.exp
     /\ resp.sent.sub \notin DOMAIN db) =>
        /\ resp.current_user = None
        /\ resp.op \in Protected => RedirectedToLogin(resp)

C10_Witness ==
    /\ resp.op \in Protected
    /\ Genuine(resp.sent)
    /\ resp.at < resp.sent.exp
    /\ resp.sent.sub \notin DOMAIN db
    /\ RedirectedToLogin(resp)

\* C11: a request carrying a token that the server's key signed and whose
\* payload has no exp claim resolves to Anonymous.
C11_NoExpiryIsInvalid ==
    (/\ resp.op \in GuardOps
     /\ Genuine(resp.sent)
     /\ "exp" \notin DOMAIN resp.sent
     /\ "exp_json" \notin DOMAIN resp.sent) =>
        resp.current_user = None

\* C12: for every cookie value get_current_user returns a user row or None
\* and raises nothing (no request is answered with a server error), and a
\* request with a token that does not decode is answered as a request with
\* no cookie is.
C12_GuardNeverRaises ==
    resp.op \in GuardOps =>
        /\ resp.current_user # TypeError
        /\ resp.status # 500
        /\ resp.current_user = None \/ resp.current_user.kind = "User"
        /\ (resp.sent # None /\ jwt_decode(resp.sent, SECRET_KEY, resp.at) = JWTError) =>
               /\ resp.current_user = None
               /\ resp.op \in Protected => RedirectedToLogin(resp)
               /\ resp.op = "login_page" => resp.template = "login.html"

\* C13: a GET of /admin/login by a request that resolves to an Identity is
\* answered with the 302 redirect to /admin; by a request that resolves to
\* Anonymous, with the rendered login page.
C13_LoginPage ==
    resp.op = "login_page" =>
        /\ resp.current_user = get_current_user(resp.sent, db, resp.at)
        /\ resp.current_user # None =>
               /\ resp.kind = "redirect"
               /\ resp.status = 302
               /\ resp.location = "/admin"
        /\ resp.current_user = None =>
               /\ resp.kind = "template"
               /\ resp.status = 200
               /\ resp.template = "login.html"

C13_Witness ==
    /\ resp.op = "login_page"
    /\ resp.current_user # None
    /\ resp.current_user.username = resp.sent.sub
    /\ resp.location = "/admin"

\* what a request resolves to, as a function of the token it carries, the
\* signing key, the clock and the users table alone
ResolvesTo(token, users, t) ==
    IF /\ Genuine(token)
       /\ t <= token.exp
       /\ token.sub \in DOMAIN users
    THEN users[token.sub]
    ELSE None

\* C14: under every interleaving of requests of the clients, a request
\* resolves to what its token, the key, the clock and the users table
\* determine; and a login or logout step of one client changes neither
\* the cookie of another client nor what that cookie resolves to.
C14_RequestsIndependent ==
    /\ [](resp.op \in GuardOps =>
              resp.current_user = ResolvesTo(resp.sent, db, resp.at))
    /\ [][\A d \in Clients :
              (resp'.op \in {"login", "logout"} /\ resp'.client # d) =>
                  /\ cookie'[d] = cookie[d]
                  /\ get_current_user(cookie[d], db, now)'
                         = get_current_user(cookie[d], db, now)]_vars

C14_Witness ==
    /\ resp.op = "login"
    /\ resp.set_cookie.action = "set"
    /\ \E d \in Clients \ {resp.client} :
           /\ Genuine(cookie[d])
           /\ cookie[d] # cookie[resp.client]
           /\ cookie[d].sub = resp.username
           /\ get_current_user(cookie[d], db, now) = db[resp.username]

\* C15: the outcome of a login submission is decided by the submitted pair
\* and the users table whatever cookie the request carries; after a
\* successful login as A the client's cookie is the new token and the
\* client's next requests resolve to A.
C15_LoginIgnoresSession ==
    resp.op = "login" =>
        IF Matches(resp.username, resp.password, db)
        THEN /\ resp.kind = "html"
             /\ resp.status = 200
             /\ resp.hx_redirect = "/admin"
             /\ resp.set_cookie.action = "set"
             /\ resp.set_cookie.value.sub = resp.username
             /\ cookie[resp.client] = resp.set_cookie.value
             /\ get_current_user(cookie[resp.client], db, now) = db[resp.username]
             /\ admin_dashboard(get_current_user(cookie[resp.client], db, now)).user
                    = db[resp.username]
        ELSE /\ resp.template = "/components/toast-warning.html"
             /\ resp.set_cookie.action = "none"

C15_Witness ==
    /\ resp.op = "login"
    /\ Matches(resp.username, resp.password, db)
    /\ Genuine(resp.sent)
    /\ get_current_user(resp.sent, db, resp.at) # None
    /\ resp.sent.sub # resp.username
    /\ get_current_user(cookie[resp.client], db, now) = db[resp.username]

\* C16: the Identity handed to a handler, and by the handler to the page
\* rendering, does not contain the stored hashed_password.
C16_IdentityWithoutHash ==
    /\ (resp.op \in GuardOps /\ resp.current_user # None) =>
           "hashed_password" \notin DOMAIN resp.current_user
    /\ (resp.op \in Protected /\ resp.user # None) =>
           "hashed_password" \notin DOMAIN resp.user

\* C17: whenever a request resolves to an Identity for user u, its token is
\* signed with the server's key, is not expired (now < expiresAt), u is in
\* the users table, and the token was issued by a login for u at most ttl
\* earlier.
C17_IdentityImpliesFreshLogin ==
    (resp.op \in GuardOps /\ resp.current_user # None) =>
        /\ Genuine(resp.sent)
        /\ resp.at < resp.sent.exp
        /\ resp.sent.sub \in DOMAIN db
        /\ resp.current_user = db[resp.sent.sub]
        /\ resp.sent.exp - TTL \in Instants
        /\ resp.sent.exp - TTL <= resp.at
        /\ resp.at - (resp.sent.exp - TTL) <= TTL

\* C17 but for the instant now = expiresAt
C17_ExceptAtExpiry ==
    (resp.op \in GuardOps /\ resp.current_user # None) =>
        /\ Genuine(resp.sent)
        /\ resp.at <= resp.sent.exp
        /\ resp.sent.sub \in DOMAIN db
        /\ resp.current_user = db[resp.sent.sub]
        /\ resp.sent.exp - TTL \in Instants
        /\ resp.sent.exp - TTL <= resp.at
        /\ resp.at - (resp.sent.exp - TTL) <= TTL

\* C18: no request (login, logout, login page, protected page) changes the
\* users table; a step that changes it is no request.
C18_StoreUnchanged ==
    [][(resp'.op # "none" => db' = db) /\ (db' # db => resp' = NoResponse)]_vars

C18_Witness ==
    /\ resp.op = "login"
    /\ resp.username \notin DOMAIN db
    /\ resp.password = ProvisionedPassword
    /\ DOMAIN db # {}
    /\ resp.sent # None

\* C19: a failed login submission sets and deletes no cookie: the client's
\* cookie is what the request carried, and if that was a valid session for
\* B the client's next protected-page request still renders for B.
C19_FailedLoginKeepsSession ==
    (resp.op = "login" /\ ~Matches(resp.username, resp.password, db)) =>
        /\ resp.set_cookie.action = "none"
        /\ cookie[resp.client] = resp.sent
        /\ \A B \in DOMAIN db :
               ResolvesTo(resp.sent, db, resp.at) = db[B] =>
                   /\ get_current_user(cookie[resp.client], db, now) = db[B]
                   /\ admin_dashboard(get_current_user(cookie[resp.client], db, now))
                          = TemplateResponse("dashboard.html", db[B])

C19_Witness ==
    /\ resp.op = "login"
    /\ ~Matches(resp.username, resp.password, db)
    /\ Genuine(resp.sent)
    /\ resp.sent.sub \in DOMAIN db
    /\ resp.at <= resp.sent.exp
    /\ get_current_user(cookie[resp.client], db, now) = db[resp.sent.sub]

====
